---- MODULE Spec2Model ----
(***************************************************************************)
(* The delegating lexer of delegate.go: a root lexer and a language lexer  *)
(* are combined; the language lexer scans the whole text and marks what it *)
(* does not recognise as Other, the root lexer scans the Other text, and   *)
(* the two token lists are interleaved.                                    *)
(*                                                                         *)
(* Text and token values are sequences of one-character strings.  One      *)
(* behaviour fixes a text and a pair of sub-lexers and then runs any       *)
(* number of Tokenise / TokeniseWithOriginalLen calls, one loop iteration  *)
(* per step.                                                               *)
(***************************************************************************)
EXTENDS Integers, Sequences, FiniteSets, TLC

VARIABLES
    text,           \* the text given to the entry points
    rootChunk,      \* root lexer: how many characters one raw token takes
    rootOther,      \* root lexer: whether it types some of its tokens Other
    rootWOL,        \* root lexer: whether it implements TokeniserWithOriginalLen
    fault,          \* which sub-lexer fails: "none", "lang" or "root"
    pc,             \* position inside the current call
    entry,          \* the entry point of the current call
    tokens,         \* tokenise: tokens of the language lexer
    offsetIter,     \* tokenise: OriginalLenIterator of the language lexer
    others,         \* tokenise: the Other buffer
    insertions,     \* tokenise: the insertion list
    insert,         \* tokenise: the open insertion (index into insertions, 0 = nil)
    offset,         \* tokenise: offset (extractor, then interleaver)
    last,           \* tokenise: the previous language token
    ti,             \* tokenise: position of the range loop over tokens
    rootTokens,     \* tokenise: tokens of the root lexer for the Other buffer
    out,            \* tokenise: the merged output
    tokenIndex,     \* tokenise: tokenIndex
    insertionIndex, \* tokenise: insertionIndex
    t,              \* tokenise: the pending root token (EOF when exhausted)
    i,              \* tokenise: the pending insertion (index, 0 = nil)
    result,         \* what the current call returned
    results,        \* what the last call of each entry point returned
    outSrc,         \* history: for each token of out, where it came from
    splitLog,       \* history: every splitToken call of the interleaver
    iters,          \* history: number of interleaver iterations of the call
    langCalls,      \* history: texts the language lexer was called with
    rootCalls,      \* history: how and with what the root lexer was called
    dRoot,          \* delegatingLexer.root (a lexer identity)
    dLanguage,      \* delegatingLexer.language (a lexer identity)
    registry,       \* registry held by each lexer
    analyser,       \* analyser held by each lexer
    ret,            \* what the last SetAnalyser / SetRegistry call returned
    injected,       \* history: the last analyser and registry injected
    answer          \* history: the last AnalyseText / Config call and its answer

callVars == <<pc, entry, tokens, offsetIter, others, insertions, insert, offset,
              last, ti, rootTokens, out, tokenIndex, insertionIndex, t, i,
              result, results, outSrc, splitLog, iters, langCalls, rootCalls>>
envVars == <<text, rootChunk, rootOther, rootWOL, fault>>
cfgVars == <<dRoot, dLanguage, registry, analyser, ret, injected, answer>>
vars == <<envVars, callVars, cfgVars>>

(***************************************************************************)
(* Bounds.                                                                 *)
(***************************************************************************)
MaxLen == 5

Chars == {"a", "b", "k", "n"}
Texts == UNION {[1..n -> Chars] : n \in 0..MaxLen}

\* The root lexers: one raw token per character, or per two characters.
RootChunks == {1, 2}

(***************************************************************************)
(* Tokens.                                                                 *)
(***************************************************************************)
Other == "Other"
EOFType == "EOFType"
EOF == [Type |-> EOFType, Value |-> <<>>]
Token(ty, v) == [Type |-> ty, Value |-> v]

RECURSIVE Stringify(_)
Stringify(toks) ==
    IF toks = <<>> THEN <<>> ELSE Head(toks).Value \o Stringify(Tail(toks))

RECURSIVE SumLen(_)
SumLen(toks) ==
    IF toks = <<>> THEN 0 ELSE Len(Head(toks).Value) + SumLen(Tail(toks))

(***************************************************************************)
(* The sub-lexers.  The language lexer emits one token per character: "k"  *)
(* is a Keyword, "n" a Name, everything else Other.  The root lexer cuts   *)
(* its input into chunks of rootChunk characters and types each chunk by   *)
(* its first character.                                                    *)
(***************************************************************************)
LangType(c) ==
    CASE c = "k" -> "Keyword"
      [] c = "n" -> "Name"
      [] OTHER   -> Other

LangRaw(txt) == [k \in 1..Len(txt) |-> Token(LangType(txt[k]), <<txt[k]>>)]

RootType(other, c) ==
    CASE c = "a" -> "Text"
      [] c = "b" -> IF other THEN Other ELSE "Tag"
      [] c = "k" -> "Tag"
      [] OTHER   -> "Text"

RECURSIVE RootRaw(_, _, _)
RootRaw(chunk, other, txt) ==
    IF txt = <<>> THEN <<>>
    ELSE LET n == IF Len(txt) < chunk THEN Len(txt) ELSE chunk
         IN  <<Token(RootType(other, txt[1]), SubSeq(txt, 1, n))>>
                \o RootRaw(chunk, other, SubSeq(txt, n + 1, Len(txt)))

\* Coalesce: consecutive tokens of one type become one token.
RECURSIVE Coalesce(_)
Coalesce(toks) ==
    IF Len(toks) <= 1 THEN toks
    ELSE LET h == Head(toks)
             rest == Coalesce(Tail(toks))
         IN  IF h.Type = Head(rest).Type
             THEN <<Token(h.Type, h.Value \o Head(rest).Value)>> \o Tail(rest)
             ELSE <<h>> \o rest

\* The original-length mapping of a token list: one length per token.
OriginalLens(toks) == [k \in 1..Len(toks) |-> Len(toks[k].Value)]


(***************************************************************************)
(* Results of a call: ok says whether a token sequence was returned, err   *)
(* is "nil" or the error.                                                  *)
(***************************************************************************)
Ok(toks, lens) == [ok |-> TRUE, tokens |-> toks, lens |-> lens, err |-> "nil"]
Err(e) == [ok |-> FALSE, tokens |-> <<>>, lens |-> <<>>, err |-> e]
NoResult == [ok |-> FALSE, tokens |-> <<>>, lens |-> <<>>, err |-> "none"]

Entries == {"Tokenise", "TokeniseWithOriginalLen"}

\* The sub-lexers and what can be injected into them.
Lexers == {"root", "language"}
Registries == {"r1", "r2"}
Analysers == {"f1", "f2"}

\* No AnalyseText / Config call has been answered since the last change.
NoAnswer == [call |-> "none"]

\* The nil pointer: insertions are referred to by their index, from 1.
nil == 0

\* d.language.Tokenise and d.root.Tokenise, as the sub-lexers answer them.
LanguageTokenise(txt) ==
    IF fault = "lang" THEN Err("LangErr") ELSE Ok(LangRaw(txt), <<>>)

RootTokenise(txt) ==
    IF fault = "root" THEN Err("RootErr")
    ELSE Ok(RootRaw(rootChunk, rootOther, txt), <<>>)

\* The root lexer's TokeniseWithOriginalLen: its tokens and their lengths.
RootTokeniseWithOriginalLen(txt) ==
    LET r == RootTokenise(txt)
    IN  IF r.ok THEN Ok(r.tokens, OriginalLens(r.tokens)) ELSE r

\* Slip: the length-preserving entry point leaves out Coalesce.
TokeniseFnRaw(e, txt) ==
    LET r == LanguageTokenise(txt)
        c == Coalesce(r.tokens)
    IN  IF ~r.ok THEN r
        ELSE IF e = "Tokenise" THEN Ok(c, <<>>)
        ELSE Ok(r.tokens, OriginalLens(r.tokens))

\* tokeniseFn(Coalesce(d.language), options, text) of either entry point.
TokeniseFn(e, txt) ==
    LET r == LanguageTokenise(txt)
        c == Coalesce(r.tokens)
    IN  IF ~r.ok THEN r
        ELSE IF e = "Tokenise" THEN Ok(c, <<>>)
        ELSE Ok(c, OriginalLens(c))

\* tokenizeRootFn(options, text) of either entry point.
TokenizeRootFn(e, txt) ==
    IF e = "Tokenise" THEN RootTokenise(txt)
    ELSE IF ~rootWOL THEN Err("Unsupported")
    ELSE RootTokeniseWithOriginalLen(txt)

\* Tokenise(Coalesce(d.root), options, others.String())
TokeniseOthers(txt) ==
    LET r == RootTokenise(txt)
    IN  IF r.ok THEN Ok(Coalesce(r.tokens), <<>>) ELSE r

(***************************************************************************)
(* The extractor loop body.                                                *)
(***************************************************************************)
\* Slip: the token type is compared with the wrong constant.
IsOtherSlip(tk) == tk.Type = EOFType

\* The language lexer marks what it does not recognise as Other.
IsOther(tk) == tk.Type = Other

\* Slip: the error of the sub-lexer is ignored.
FailedIgnored(r) == FALSE

\* if err != nil: the sub-lexer returned an error.
Failed(r) == ~r.ok

\* Slip: the token is put in front of the insertion's tokens.
AppendTokenInFront(toks, tk) == <<tk>> \o toks

\* insert.tokens = append(insert.tokens, t)
AppendToken(toks, tk) == Append(toks, tk)

\* Slip: the value is put in front of the buffer.
WriteStringInFront(buf, v) == v \o buf

\* others.WriteString(t.Value)
WriteString(buf, v) == buf \o v

\* An Other token closes the open insertion when it follows a language token.
CloseInsertion(ins, open, lastTok, off) ==
    IF lastTok # EOF /\ open # nil /\ lastTok.Type # Other
    THEN [ins EXCEPT ![open].end = off]
    ELSE ins

\* Slip: the test for the first token is left out.
OpensInsertionAfterOther(lastTok) == lastTok.Type = Other

\* A language token opens an insertion at the start and after an Other token.
OpensInsertion(lastTok) == lastTok = EOF \/ lastTok.Type = Other

NewInsertion(off) == [start |-> off, end |-> 0, tokens |-> <<>>]

\* Slip: the test for the fast path never succeeds.
FastPathSkipped(ins) == Len(ins) < 0

\* No insertions: the root lexer's iterator is returned as it is.
FastPath(ins) == Len(ins) = 0

(***************************************************************************)
(* The interleaver.                                                        *)
(***************************************************************************)
NextToken(rt, idx) ==
    IF idx >= Len(rt) THEN [tok |-> EOF, idx |-> idx]
    ELSE [tok |-> rt[idx + 1], idx |-> idx + 1]

\* Slip: the insertion cursor is not advanced.
NextInsertionStuck(ins, idx) ==
    IF idx >= Len(ins) THEN [i |-> nil, idx |-> idx]
    ELSE [i |-> idx + 1, idx |-> idx]

NextInsertion(ins, idx) ==
    IF idx >= Len(ins) THEN [i |-> nil, idx |-> idx]
    ELSE [i |-> idx + 1, idx |-> idx + 1]

LoopCond(tok, ii) == tok # EOF \/ ii # nil

SpliceCond(tok, ii, ins, off) ==
    tok = EOF \/ (ii # nil /\ ins[ii].start < off + Len(tok.Value))

\* Slip: the right part starts one character late.
splitTokenLate(tok, off) ==
    IF tok = EOF THEN [l |-> EOF, r |-> EOF, panic |-> FALSE]
    ELSE IF off = 0 THEN [l |-> EOF, r |-> tok, panic |-> FALSE]
    ELSE IF off = Len(tok.Value) THEN [l |-> tok, r |-> EOF, panic |-> FALSE]
    ELSE IF off < 0 \/ off > Len(tok.Value)
         THEN [l |-> EOF, r |-> EOF, panic |-> TRUE]
    ELSE [l |-> Token(tok.Type, SubSeq(tok.Value, 1, off)),
          r |-> Token(tok.Type, SubSeq(tok.Value, off + 2, Len(tok.Value))),
          panic |-> FALSE]

\* splitToken: panic stands for a slice index out of range.
splitToken(tok, off) ==
    IF tok = EOF THEN [l |-> EOF, r |-> EOF, panic |-> FALSE]
    ELSE IF off = 0 THEN [l |-> EOF, r |-> tok, panic |-> FALSE]
    ELSE IF off = Len(tok.Value) THEN [l |-> tok, r |-> EOF, panic |-> FALSE]
    ELSE IF off < 0 \/ off > Len(tok.Value)
         THEN [l |-> EOF, r |-> EOF, panic |-> TRUE]
    ELSE [l |-> Token(tok.Type, SubSeq(tok.Value, 1, off)),
          r |-> Token(tok.Type, SubSeq(tok.Value, off + 1, Len(tok.Value))),
          panic |-> FALSE]

\* Slip: the left part is dropped.
EmitLeftDropped(o, l) == o

\* Slip: the left part is appended without the test for EOF.
EmitLeftUnguarded(o, l) == Append(o, l)

\* What the splice branch appends to out: the left part unless it is EOF.
EmitLeft(o, l) == IF l # EOF THEN Append(o, l) ELSE o


(***************************************************************************)
(* One call of an entry point, step by step.                               *)
(***************************************************************************)
FromRoot(k) == [from |-> "root", idx |-> k]
FromInsertion(j) == [from |-> "ins", idx |-> j]

InitCall ==
    /\ pc = "idle"
    /\ entry = "none"
    /\ tokens = <<>>
    /\ offsetIter = <<>>
    /\ others = <<>>
    /\ insertions = <<>>
    /\ insert = nil
    /\ offset = 0
    /\ last = EOF
    /\ ti = 1
    /\ rootTokens = <<>>
    /\ out = <<>>
    /\ tokenIndex = 0
    /\ insertionIndex = 0
    /\ t = EOF
    /\ i = nil
    /\ result = NoResult
    /\ results = [e \in Entries |-> NoResult]
    /\ outSrc = <<>>
    /\ splitLog = <<>>
    /\ iters = 0
    /\ langCalls = <<>>
    /\ rootCalls = <<>>

\* DelegatingLexer(root, language): two distinct sub-lexers.
InitWrapper ==
    /\ dRoot = "root"
    /\ dLanguage = "language"
    /\ ret = "none"
    /\ answer = NoAnswer

Init ==
    /\ text \in Texts
    /\ rootChunk \in RootChunks
    /\ rootOther \in BOOLEAN
    /\ rootWOL \in BOOLEAN
    /\ fault \in {"none", "lang", "root"}
    /\ rootOther => rootChunk = 1
    \* the tokens of a lexer that fails are never seen
    /\ fault # "none" => rootChunk = 1 /\ ~rootOther
    /\ fault = "lang" => rootWOL
    /\ InitCall
    /\ InitWrapper
    /\ registry = [l \in Lexers |-> "nil"]
    /\ analyser = [l \in Lexers |-> "nil"]
    /\ injected = [analyser |-> "none", registry |-> "none",
                   language0 |-> "nil"]

\* A caller enters Tokenise or TokeniseWithOriginalLen with the text.
Call(e) ==
    /\ pc = "idle"
    /\ pc' = "lang"
    /\ entry' = e
    /\ tokens' = <<>>
    /\ offsetIter' = <<>>
    /\ others' = <<>>
    /\ insertions' = <<>>
    /\ insert' = nil
    /\ offset' = 0
    /\ last' = EOF
    /\ ti' = 1
    /\ rootTokens' = <<>>
    /\ out' = <<>>
    /\ tokenIndex' = 0
    /\ insertionIndex' = 0
    /\ t' = EOF
    /\ i' = nil
    /\ result' = NoResult
    /\ outSrc' = <<>>
    /\ splitLog' = <<>>
    /\ iters' = 0
    /\ langCalls' = <<>>
    /\ rootCalls' = <<>>
    /\ UNCHANGED <<results, envVars, cfgVars>>

\* tokenise, lines 90-99: the language lexer runs over the whole text.
LangStep ==
    /\ pc = "lang"
    /\ LET r == TokeniseFn(entry, text)
       IN  /\ langCalls' = Append(langCalls, text)
           /\ IF Failed(r)
              THEN /\ result' = Err(r.err)
                   /\ pc' = "done"
                   /\ UNCHANGED <<tokens, offsetIter>>
              ELSE /\ tokens' = r.tokens
                   /\ offsetIter' = r.lens
                   /\ pc' = "extract"
                   /\ UNCHANGED result
    /\ UNCHANGED <<entry, others, insertions, insert, offset, last, ti,
                   rootTokens, out, tokenIndex, insertionIndex, t, i, results,
                   outSrc, splitLog, iters, rootCalls, envVars, cfgVars>>

\* tokenise, lines 100-115: one iteration of the loop over the language tokens.
ExtractStep ==
    /\ pc = "extract"
    /\ ti <= Len(tokens)
    /\ LET tk == tokens[ti]
       IN  IF IsOther(tk)
           THEN /\ insertions' = CloseInsertion(insertions, insert, last, offset)
                /\ others' = WriteString(others, tk.Value)
                /\ insert' = insert
                /\ pc' = pc
                /\ last' = tk
                /\ offset' = offset + Len(tk.Value)
                /\ ti' = ti + 1
           ELSE LET opened == OpensInsertion(last)
                    ins1 == IF opened
                            THEN Append(insertions, NewInsertion(offset))
                            ELSE insertions
                    open1 == IF opened THEN Len(ins1) ELSE insert
                IN  IF open1 = nil
                    THEN /\ pc' = "panic"
                         /\ insertions' = ins1
                         /\ UNCHANGED <<others, insert, last, offset, ti>>
                    ELSE /\ insertions' =
                                [ins1 EXCEPT ![open1].tokens = AppendToken(@, tk)]
                         /\ insert' = open1
                         /\ others' = others
                         /\ pc' = pc
                         /\ last' = tk
                         /\ offset' = offset + Len(tk.Value)
                         /\ ti' = ti + 1
    /\ UNCHANGED <<entry, tokens, offsetIter, rootTokens, out, tokenIndex,
                   insertionIndex, t, i, result, results, outSrc, splitLog,
                   iters, langCalls, rootCalls, envVars, cfgVars>>

\* tokenise, lines 117-120: no insertions, the root lexer gets the text.
FastPathStep ==
    /\ pc = "extract"
    /\ ti > Len(tokens)
    /\ FastPath(insertions)
    /\ LET r == TokenizeRootFn(entry, text)
       IN  /\ result' = r
           /\ outSrc' = [k \in 1..Len(r.tokens) |-> FromRoot(k)]
           /\ rootCalls' = Append(rootCalls, [how |-> "direct", text |-> text,
                                              called |-> r.err # "Unsupported"])
    /\ pc' = "done"
    /\ UNCHANGED <<entry, tokens, offsetIter, others, insertions, insert,
                   offset, last, ti, rootTokens, out, tokenIndex,
                   insertionIndex, t, i, results, splitLog, iters, langCalls,
                   envVars, cfgVars>>

\* tokenise, lines 122-150: the root lexer gets the Other buffer and the
\* interleaver is set up.
RootStep ==
    /\ pc = "extract"
    /\ ti > Len(tokens)
    /\ ~FastPath(insertions)
    /\ LET r == TokeniseOthers(others)
           nt == NextToken(r.tokens, 0)
           ni == NextInsertion(insertions, 0)
       IN  /\ rootCalls' = Append(rootCalls, [how |-> "coalesced",
                                              text |-> others, called |-> TRUE])
           /\ IF Failed(r)
              THEN /\ result' = Err(r.err)
                   /\ pc' = "done"
                   /\ UNCHANGED <<rootTokens, offset, tokenIndex,
                                  insertionIndex, t, i>>
              ELSE /\ rootTokens' = r.tokens
                   /\ offset' = 0
                   /\ t' = nt.tok
                   /\ tokenIndex' = nt.idx
                   /\ i' = ni.i
                   /\ insertionIndex' = ni.idx
                   /\ pc' = "merge"
                   /\ UNCHANGED result
    /\ UNCHANGED <<entry, tokens, offsetIter, others, insertions, insert, last,
                   ti, out, results, outSrc, splitLog, iters, langCalls,
                   envVars, cfgVars>>

\* tokenise, lines 153-165: the insertion starts inside (or at the start of)
\* the pending root token, or the root tokens are exhausted.
Splice ==
    /\ pc = "merge"
    /\ LoopCond(t, i)
    /\ SpliceCond(t, i, insertions, offset)
    /\ iters' = iters + 1
    /\ IF i = nil
       THEN /\ pc' = "panic"
            /\ UNCHANGED <<out, outSrc, offset, t, tokenIndex, i,
                           insertionIndex, splitLog>>
       ELSE LET at == insertions[i].start - offset
                s == splitToken(t, at)
                out1 == EmitLeft(out, s.l)
                src1 == IF Len(out1) > Len(out)
                        THEN Append(outSrc, FromRoot(tokenIndex))
                        ELSE outSrc
                off1 == IF s.l # EOF THEN offset + Len(s.l.Value) ELSE offset
                nt == IF s.r = EOF
                      THEN NextToken(rootTokens, tokenIndex)
                      ELSE [tok |-> s.r, idx |-> tokenIndex]
                ni == NextInsertion(insertions, insertionIndex)
            IN  /\ splitLog' = Append(splitLog,
                        [ins |-> i, tok |-> t, at |-> at, pos |-> Len(out),
                         rootIdx |-> tokenIndex, l |-> s.l, r |-> s.r])
                /\ IF s.panic
                   THEN /\ pc' = "panic"
                        /\ UNCHANGED <<out, outSrc, offset, t, tokenIndex, i,
                                       insertionIndex>>
                   ELSE /\ out' = out1 \o insertions[i].tokens
                        /\ outSrc' = src1 \o
                              [k \in 1..Len(insertions[i].tokens) |->
                                  FromInsertion(i)]
                        /\ offset' = off1 + (insertions[i].end
                                                - insertions[i].start)
                        /\ t' = nt.tok
                        /\ tokenIndex' = nt.idx
                        /\ i' = ni.i
                        /\ insertionIndex' = ni.idx
                        /\ pc' = pc
    /\ UNCHANGED <<entry, tokens, offsetIter, others, insertions, insert, last,
                   ti, rootTokens, result, results, langCalls, rootCalls,
                   envVars, cfgVars>>

\* tokenise, lines 166-170: the pending root token is emitted whole.
EmitRoot ==
    /\ pc = "merge"
    /\ LoopCond(t, i)
    /\ ~SpliceCond(t, i, insertions, offset)
    /\ iters' = iters + 1
    /\ out' = Append(out, t)
    /\ outSrc' = Append(outSrc, FromRoot(tokenIndex))
    /\ offset' = offset + Len(t.Value)
    /\ LET nt == NextToken(rootTokens, tokenIndex)
       IN  /\ t' = nt.tok
           /\ tokenIndex' = nt.idx
    /\ UNCHANGED <<pc, entry, tokens, offsetIter, others, insertions, insert,
                   last, ti, rootTokens, insertionIndex, i, result, results,
                   splitLog, langCalls, rootCalls, envVars, cfgVars>>

\* tokenise, line 172: both cursors are exhausted.
MergeDone ==
    /\ pc = "merge"
    /\ ~LoopCond(t, i)
    /\ result' = Ok(out, offsetIter)
    /\ pc' = "done"
    /\ UNCHANGED <<entry, tokens, offsetIter, others, insertions, insert,
                   offset, last, ti, rootTokens, out, tokenIndex,
                   insertionIndex, t, i, results, outSrc, splitLog, iters,
                   langCalls, rootCalls, envVars, cfgVars>>

\* The entry point returns to its caller.
Return ==
    /\ pc = "done"
    /\ results' = [results EXCEPT ![entry] = result]
    /\ pc' = "idle"
    /\ entry' = "none"
    /\ tokens' = <<>>
    /\ offsetIter' = <<>>
    /\ others' = <<>>
    /\ insertions' = <<>>
    /\ insert' = nil
    /\ offset' = 0
    /\ last' = EOF
    /\ ti' = 1
    /\ rootTokens' = <<>>
    /\ out' = <<>>
    /\ tokenIndex' = 0
    /\ insertionIndex' = 0
    /\ t' = EOF
    /\ i' = nil
    /\ result' = NoResult
    /\ outSrc' = <<>>
    /\ splitLog' = <<>>
    /\ iters' = 0
    /\ langCalls' = <<>>
    /\ rootCalls' = <<>>
    /\ UNCHANGED <<envVars, cfgVars>>

Next ==
    \/ \E e \in Entries : Call(e)
    \/ LangStep
    \/ ExtractStep
    \/ FastPathStep
    \/ RootStep
    \/ Splice
    \/ EmitRoot
    \/ MergeDone
    \/ Return

Spec == Init /\ [][Next]_vars


(***************************************************************************)
(* Properties.                                                             *)
(***************************************************************************)
Returned == pc = "done"
Succeeded == pc = "done" /\ result.ok
Merged == Len(insertions) > 0
AllOther(toks) == \A k \in 1..Len(toks) : toks[k].Type = Other
InteriorSplit(s) == s.tok # EOF /\ 0 < s.at /\ s.at < Len(s.tok.Value)

\* C1 (Reconstruction): the values of the tokens a successful call returns,
\* concatenated in output order, are the text the call was given.
Reconstruction == Succeeded => Stringify(result.tokens) = text

\* A successful merge in which a root token was split around an insertion.
ReconstructionWitness ==
    /\ Succeeded
    /\ Merged
    /\ \E k \in 1..Len(splitLog) : InteriorSplit(splitLog[k])

\* C2 as claimed (No bare Other tokens): no token a successful call returns
\* has the Other type.
NoOtherInOutput == Succeeded => ~\E k \in 1..Len(result.tokens) :
                                    result.tokens[k].Type = Other

\* C2 as amended: every Other token a successful call returns is a token of
\* the root lexer (or a piece of one), never a token of the language lexer;
\* when the root lexer returned no Other token the output holds none.
OtherOnlyFromRoot ==
    Succeeded =>
        /\ Len(outSrc) = Len(result.tokens)
        /\ \A k \in 1..Len(result.tokens) :
              result.tokens[k].Type = Other => outSrc[k].from = "root"
        /\ (Merged /\ ~\E k \in 1..Len(rootTokens) : rootTokens[k].Type = Other)
              => ~\E k \in 1..Len(result.tokens) :
                     result.tokens[k].Type = Other

\* A successful merge whose output holds an Other token next to spliced
\* language tokens.
OtherOnlyFromRootWitness ==
    /\ Succeeded
    /\ Merged
    /\ \E k \in 1..Len(result.tokens) : result.tokens[k].Type = Other
    /\ \E k \in 1..Len(tokens) : tokens[k].Type = Other

\* C3 (Fast-path equivalence): when the language lexer types the whole text
\* Other (or returns no token), the insertion list is empty, the interleaver
\* does not run, the root lexer is called once, directly and with the text,
\* and Tokenise returns exactly what the root lexer returned.
FastPathEquivalence ==
    (Returned /\ fault # "lang" /\ AllOther(tokens)) =>
        /\ insertions = <<>>
        /\ iters = 0
        /\ out = <<>>
        /\ Len(rootCalls) = 1
        /\ rootCalls[1].how = "direct"
        /\ rootCalls[1].text = text
        /\ entry = "Tokenise" => /\ result = RootTokenise(text)
                                 /\ rootCalls[1].called

\* The fast path taken on a text whose root tokens Coalesce would change.
FastPathWitness ==
    /\ Succeeded
    /\ entry = "Tokenise"
    /\ AllOther(tokens)
    /\ Len(tokens) > 0
    /\ Coalesce(result.tokens) # result.tokens

\* C4 (UnsupportedCapability): when the root lexer does not implement
\* TokeniserWithOriginalLen (and neither sub-lexer fails),
\* TokeniseWithOriginalLen returns the unsupported-capability error and no
\* token sequence.
UnsupportedCapability ==
    (Returned /\ entry = "TokeniseWithOriginalLen" /\ ~rootWOL
        /\ fault = "none")
    => (result.err = "Unsupported" /\ ~result.ok)

\* C5 (Error propagation): a failing sub-lexer is called once, its error is
\* what the call returns, with no token sequence; when the language lexer
\* fails the root lexer is not called.
ErrorPropagation ==
    /\ fault = "lang" => /\ rootCalls = <<>>
                         /\ Len(langCalls) <= 1
                         /\ Returned => /\ result = Err("LangErr")
                                        /\ Len(langCalls) = 1
    /\ fault = "root" => /\ Len(rootCalls) <= 1
                         /\ (Returned /\ rootCalls[1].called)
                                => result = Err("RootErr")
    /\ Returned => Len(rootCalls) = IF fault = "lang" THEN 0 ELSE 1

\* The root lexer failed on the Other buffer of a merge.
ErrorPropagationWitness ==
    /\ Returned
    /\ fault = "root"
    /\ Merged
    /\ result = Err("RootErr")
    /\ rootCalls[1].text # text


IsPrefix(a, b) == Len(a) <= Len(b) /\ SubSeq(b, 1, Len(a)) = a

\* What follows the spliced insertion s.ins in out: the right part of the
\* split, cut where the next insertion starts if that is inside it.
PieceAfter(s) ==
    LET here == insertions[s.ins]
        inside == /\ s.ins < Len(insertions)
                  /\ insertions[s.ins + 1].start < here.end + Len(s.r.Value)
    IN  IF inside
        THEN SubSeq(s.r.Value, 1, insertions[s.ins + 1].start - here.end)
        ELSE s.r.Value

\* C6 (Split fidelity): when an insertion starts k characters inside the
\* pending root token, out holds a token with the first k characters, then
\* the insertion's tokens, then a token that starts the remaining characters
\* (all of them when no further insertion starts inside); both pieces have
\* the root token's type, their values concatenate to its value and neither
\* is empty.  Splitting at 0 emits nothing on the left and keeps the token;
\* splitting at the token's length gives the whole token and EOF.
SplitFidelity ==
    \A k \in 1..Len(splitLog) :
        LET s == splitLog[k]
            n == Len(insertions[s.ins].tokens)
            left == IF s.l = EOF THEN 0 ELSE 1
            after == s.pos + left + n + 1
        IN  s.tok # EOF =>
            /\ splitToken(s.tok, 0) = [l |-> EOF, r |-> s.tok, panic |-> FALSE]
            /\ splitToken(s.tok, Len(s.tok.Value))
                  = [l |-> s.tok, r |-> EOF, panic |-> FALSE]
            /\ s.at = 0 => s.l = EOF /\ s.r = s.tok
            /\ InteriorSplit(s) =>
                  /\ s.l = Token(s.tok.Type, SubSeq(s.tok.Value, 1, s.at))
                  /\ s.r.Type = s.tok.Type
                  /\ s.l.Value \o s.r.Value = s.tok.Value
                  /\ s.l.Value # <<>> /\ s.r.Value # <<>>
                  /\ out[s.pos + 1] = s.l
                  /\ outSrc[s.pos + 1] = FromRoot(s.rootIdx)
            /\ SubSeq(out, s.pos + left + 1, s.pos + left + n)
                  = insertions[s.ins].tokens
            /\ s.r # EOF =>
                  /\ Len(out) >= after =>
                        /\ out[after] = Token(s.tok.Type, PieceAfter(s))
                        /\ outSrc[after] = FromRoot(s.rootIdx)
                        /\ IsPrefix(out[after].Value, s.r.Value)
                        /\ out[after].Value # <<>>
                  /\ pc = "done" => Len(out) >= after

\* A finished merge in which one root token was split by two insertions.
SplitFidelityWitness ==
    /\ Succeeded
    /\ \E k \in 1..Len(splitLog) :
          /\ InteriorSplit(splitLog[k])
          /\ k < Len(splitLog)
          /\ InteriorSplit(splitLog[k + 1])
          /\ splitLog[k + 1].rootIdx = splitLog[k].rootIdx


(***************************************************************************)
(* Configuration injection: SetAnalyser and SetRegistry.                   *)
(***************************************************************************)
\* SetAnalyser and SetRegistry of a sub-lexer: it stores what it is given.
LexerSetAnalyser(an, l, a) == [an EXCEPT ![l] = a]
LexerSetRegistry(reg, l, r) == [reg EXCEPT ![l] = r]

\* Slip: the analyser is given to the language lexer too.
DelegateSetAnalyserBoth(an, a) ==
    LexerSetAnalyser(LexerSetAnalyser(an, dRoot, a), dLanguage, a)

\* delegatingLexer.SetAnalyser: d.root.SetAnalyser(analyser)
DelegateSetAnalyser(an, a) == LexerSetAnalyser(an, dRoot, a)

\* delegatingLexer.SetRegistry: d.root.SetRegistry(r); d.language.SetRegistry(r)
DelegateSetRegistry(reg, r) ==
    LexerSetRegistry(LexerSetRegistry(reg, dRoot, r), dLanguage, r)

\* The texts AnalyseText is asked about.
QueryTexts == {<<>>, <<"a">>, <<"a", "k">>}

\* AnalyseText of a sub-lexer: the score its analyser gives the text, 0
\* without an analyser.  Scores are in tenths.
LexerAnalyseText(l, txt) ==
    CASE analyser[l] = "f1" -> IF Len(txt) > 1 THEN 10 ELSE 5
      [] analyser[l] = "f2" -> IF txt = <<>> THEN 1 ELSE 2
      [] OTHER -> 0

\* Config of a sub-lexer: its own name, aliases and filename patterns.
LexerConfig(l) == [Name |-> l, Aliases |-> <<l>>, Filenames |-> <<>>]

\* Slip: the language lexer is asked for the score.
DelegateAnalyseTextLanguage(txt) == LexerAnalyseText(dLanguage, txt)

\* delegatingLexer.AnalyseText: d.root.AnalyseText(text)
DelegateAnalyseText(txt) == LexerAnalyseText(dRoot, txt)

\* delegatingLexer.Config: d.language.Config()
DelegateConfig == LexerConfig(dLanguage)

\* What the wrapper holds; AnalyseText and Config leave it as it is.
WrapperState == <<dRoot, dLanguage, registry, analyser>>

InitConfig ==
    /\ text = <<>>
    /\ rootChunk = 1
    /\ rootOther = FALSE
    /\ rootWOL = TRUE
    /\ fault = "none"
    /\ InitCall
    /\ InitWrapper
    /\ registry \in [Lexers -> Registries \cup {"nil"}]
    /\ analyser \in [Lexers -> Analysers \cup {"nil"}]
    /\ injected = [analyser |-> "none", registry |-> "none",
                   language0 |-> analyser[dLanguage]]

SetAnalyser(a) ==
    /\ pc = "idle"
    /\ analyser' = DelegateSetAnalyser(analyser, a)
    /\ ret' = "d"
    /\ injected' = [injected EXCEPT !.analyser = a]
    /\ answer' = NoAnswer
    /\ UNCHANGED <<dRoot, dLanguage, registry, envVars, callVars>>

SetRegistry(r) ==
    /\ pc = "idle"
    /\ registry' = DelegateSetRegistry(registry, r)
    /\ ret' = "d"
    /\ injected' = [injected EXCEPT !.registry = r]
    /\ answer' = NoAnswer
    /\ UNCHANGED <<dRoot, dLanguage, analyser, envVars, callVars>>

AnalyseText(txt) ==
    /\ pc = "idle"
    /\ answer' = [call |-> "AnalyseText", arg |-> txt,
                  value |-> DelegateAnalyseText(txt), before |-> WrapperState]
    /\ UNCHANGED <<dRoot, dLanguage, registry, analyser, ret, injected,
                   envVars, callVars>>

Config ==
    /\ pc = "idle"
    /\ answer' = [call |-> "Config", value |-> DelegateConfig,
                  before |-> WrapperState]
    /\ UNCHANGED <<dRoot, dLanguage, registry, analyser, ret, injected,
                   envVars, callVars>>

NextConfig ==
    \/ \E a \in Analysers : SetAnalyser(a)
    \/ \E r \in Registries : SetRegistry(r)
    \/ \E txt \in QueryTexts : AnalyseText(txt)
    \/ Config

SpecConfig == InitConfig /\ [][NextConfig]_vars

(***************************************************************************)
(* Properties, continued.                                                  *)
(***************************************************************************)
RECURSIVE SplicedTokens(_, _)
SplicedTokens(o, src) ==
    IF o = <<>> THEN <<>>
    ELSE (IF Head(src).from = "ins" THEN <<Head(o)>> ELSE <<>>)
            \o SplicedTokens(Tail(o), Tail(src))

\* The offsets in the text at which the maximal runs of language tokens start.
RECURSIVE RunStarts(_, _, _)
RunStarts(toks, k, off) ==
    IF k > Len(toks) THEN <<>>
    ELSE (IF toks[k].Type # Other /\ (k = 1 \/ toks[k - 1].Type = Other)
          THEN <<off>> ELSE <<>>)
            \o RunStarts(toks, k + 1, off + Len(toks[k].Value))

NotOther(tk) == tk.Type # Other
HasLanguage == \E k \in 1..Len(tokens) : tokens[k].Type # Other
BlockOf(j) == {k \in 1..Len(outSrc) : outSrc[k] = FromInsertion(j)}
First(P) == CHOOSE a \in P : \A b \in P : a <= b

\* C7 (Language tokens spliced in verbatim): in a merge with a language
\* token, the output without its root-derived tokens is the sequence of the
\* language lexer's tokens that are not Other; each maximal run is one
\* contiguous block, and the values before the block are as long as the
\* offset in the text at which the run started.
SplicedVerbatim ==
    (Succeeded /\ HasLanguage) =>
        LET runs == RunStarts(tokens, 1, 0)
        IN  /\ Len(outSrc) = Len(result.tokens)
            /\ SplicedTokens(result.tokens, outSrc) = SelectSeq(tokens, NotOther)
            /\ \A k \in 1..Len(outSrc) :
                  outSrc[k].from = "ins" => outSrc[k].idx \in 1..Len(runs)
            /\ \A j \in 1..Len(runs) :
                  LET P == BlockOf(j)
                  IN  /\ P # {}
                      /\ \A a \in P, b \in P : \A c \in a..b : c \in P
                      /\ SumLen(SubSeq(result.tokens, 1, First(P) - 1))
                            = runs[j]

\* A finished merge with two runs of language tokens, one of two tokens.
SplicedVerbatimWitness ==
    /\ Succeeded
    /\ Len(RunStarts(tokens, 1, 0)) >= 2
    /\ \E j \in 1..Len(insertions) : Len(insertions[j].tokens) >= 2

\* C8 (No sentinel leakage): at every step of the interleaver and in what
\* the call returns, no element of the output is the EOF token.
NoSentinelLeak ==
    /\ \A k \in 1..Len(out) : out[k] # EOF
    /\ \A k \in 1..Len(result.tokens) : result.tokens[k] # EOF

\* A finished merge in which splitToken returned EOF as the left part of a
\* root token, and in which an insertion was spliced after the last root
\* token.
NoSentinelLeakWitness ==
    /\ Succeeded
    /\ \E k \in 1..Len(splitLog) :
          splitLog[k].tok # EOF /\ splitLog[k].l = EOF
    /\ \E k \in 1..Len(splitLog) : splitLog[k].tok = EOF

\* C9 (Identical merge semantics): with a root lexer that implements
\* TokeniserWithOriginalLen, when Tokenise and TokeniseWithOriginalLen both
\* succeed on the text they return the same tokens; Tokenise returns no
\* original-length mapping.
EntryPointsAgree ==
    (/\ rootWOL
     /\ results["Tokenise"].ok
     /\ results["TokeniseWithOriginalLen"].ok)
    => /\ results["Tokenise"].tokens
            = results["TokeniseWithOriginalLen"].tokens
       /\ results["Tokenise"].lens = <<>>

\* Both entry points have returned a merge in which the language lexer's
\* tokens were coalesced.
EntryPointsAgreeWitness ==
    /\ rootWOL
    /\ results["Tokenise"].ok
    /\ results["TokeniseWithOriginalLen"].ok
    /\ results["TokeniseWithOriginalLen"].lens # <<>>
    /\ \E k \in 1..Len(results["Tokenise"].tokens) :
          /\ results["Tokenise"].tokens[k].Type = "Keyword"
          /\ Len(results["Tokenise"].tokens[k].Value) >= 2

\* C10 (Configuration injection): after any SetAnalyser and SetRegistry
\* calls both sub-lexers hold the registry injected last, the root lexer
\* holds the analyser injected last, the language lexer's analyser is the
\* one it started with, every call returned the delegating lexer, and the
\* sub-lexers are the ones it was built with.
ConfigInjection ==
    /\ dRoot = "root"
    /\ dLanguage = "language"
    /\ ret \in {"none", "d"}
    /\ injected.registry # "none" =>
          /\ registry[dRoot] = injected.registry
          /\ registry[dLanguage] = injected.registry
    /\ injected.analyser # "none" =>
          /\ analyser[dRoot] = injected.analyser
          /\ ret = "d"
    /\ analyser[dLanguage] = injected.language0

\* Both have been injected, and the analysers of the sub-lexers differ.
ConfigInjectionWitness ==
    /\ injected.registry # "none"
    /\ injected.analyser # "none"
    /\ ret = "d"
    /\ analyser[dRoot] # analyser[dLanguage]
    /\ analyser[dLanguage] # "nil"


\* C11 (Query forwarding): AnalyseText returns the root lexer's score for
\* the text, Config returns the language lexer's configuration, and
\* neither changes what the wrapper and its sub-lexers hold.
QueryForwarding ==
    /\ answer.call = "AnalyseText" =>
          /\ answer.value = LexerAnalyseText("root", answer.arg)
          /\ answer.before = WrapperState
    /\ answer.call = "Config" =>
          /\ answer.value = LexerConfig("language")
          /\ answer.value # LexerConfig("root")
          /\ answer.before = WrapperState

\* AnalyseText was answered while the two sub-lexers score the text
\* differently, after an analyser was injected.
QueryForwardingWitness ==
    /\ answer.call = "AnalyseText"
    /\ injected.analyser # "none"
    /\ LexerAnalyseText("root", answer.arg)
          # LexerAnalyseText("language", answer.arg)
    /\ LexerAnalyseText("language", answer.arg) # 0


ExtractorFinished == pc = "extract" /\ ti > Len(tokens)

\* The offset in the text of the language lexer's k-th token.
TokenOffset(k) == SumLen(SubSeq(tokens, 1, k - 1))

\* C12 (Insertion invariant): when the extractor loop has finished the
\* insertions are in increasing start order and do not overlap, and every
\* insertion, the one whose run reaches the end of the text included, has
\* tokens of summed length end - start and starts at the offset of its first
\* token.
InsertionInvariant ==
    ExtractorFinished =>
        /\ \A k \in 1..Len(insertions) - 1 :
              /\ insertions[k].start <= insertions[k + 1].start
              /\ insertions[k].end <= insertions[k + 1].start
        /\ \A k \in 1..Len(insertions) :
              /\ SumLen(insertions[k].tokens)
                    = insertions[k].end - insertions[k].start
              /\ \E j \in 1..Len(tokens) :
                    /\ tokens[j] = insertions[k].tokens[1]
                    /\ TokenOffset(j) = insertions[k].start

\* C13 (Offset cursor invariant): at the start of every iteration of the
\* interleaver and when its loop exits, offset is the summed length of the
\* values of the tokens emitted so far.
OffsetCursor ==
    (pc = "merge" \/ (Succeeded /\ Merged)) => offset = SumLen(out)


\* C14 as claimed (Call ordering): once the language lexer has succeeded
\* and the call has returned, the root lexer has been invoked exactly once.
RootInvokedOnce ==
    (Returned /\ fault # "lang") =>
        /\ Len(rootCalls) = 1
        /\ rootCalls[1].called

\* C14 as amended: the language lexer is invoked once, on the text, before
\* anything is asked of the root lexer; after it succeeds the root lexer is
\* invoked once, directly on the text when the insertion list is empty and
\* through Coalesce on the Other buffer otherwise, except that
\* TokeniseWithOriginalLen in the fast path does not invoke a root lexer
\* that lacks the capability; the interleaver runs only after the root
\* lexer succeeded on the Other buffer, never in the fast path.
CallOrdering ==
    /\ Len(langCalls) <= 1
    /\ Len(rootCalls) <= 1
    /\ \A k \in 1..Len(langCalls) : langCalls[k] = text
    /\ pc \in {"extract", "merge", "done"} => Len(langCalls) = 1
    /\ rootCalls # <<>> => Len(langCalls) = 1 /\ fault # "lang"
    /\ (pc \in {"merge", "done"} /\ fault # "lang") =>
          /\ Len(rootCalls) = 1
          /\ insertions = <<>> =>
                /\ rootCalls[1].how = "direct"
                /\ rootCalls[1].text = text
                /\ rootCalls[1].called
                      <=> ~(entry = "TokeniseWithOriginalLen" /\ ~rootWOL)
          /\ insertions # <<>> =>
                /\ rootCalls[1].how = "coalesced"
                /\ rootCalls[1].text = others
                /\ rootCalls[1].called
    /\ (pc = "merge" \/ iters > 0) =>
          /\ Len(rootCalls) = 1
          /\ rootCalls[1].how = "coalesced"
          /\ fault = "none"
          /\ insertions # <<>>
          /\ ti > Len(tokens)

\* A finished merge: the root lexer was given an Other buffer that is not
\* the text and the interleaver ran.
CallOrderingWitness ==
    /\ Succeeded
    /\ Merged
    /\ iters >= 2
    /\ rootCalls[1].text # text
    /\ rootCalls[1].text # <<>>


\* What the interleaver still has to consume: the pending and the unread
\* root tokens, and the pending and the unread insertions.
Pending ==
    (Len(rootTokens) - tokenIndex) + (IF t # EOF THEN 1 ELSE 0)
        + (Len(insertions) - insertionIndex) + (IF i # nil THEN 1 ELSE 0)

InterleaverBounded ==
    pc = "merge" \/ (Succeeded /\ Merged) =>
        /\ iters + Pending <= Len(rootTokens) + Len(insertions)
        /\ iters <= Len(rootTokens) + Len(insertions)
        /\ Succeeded => /\ Pending = 0
                        /\ t = EOF
                        /\ i = nil
        /\ pc = "merge" => ENABLED (Splice \/ EmitRoot \/ MergeDone)

InterleaverStep ==
    pc = "merge" =>
        /\ pc' \in {"merge", "done"}
        /\ IsPrefix(out, out')
        /\ pc' = "merge" => /\ iters' = iters + 1
                            /\ Pending' < Pending
                            /\ Pending' >= Pending - 2
        /\ pc' = "done" => /\ out' = out
                           /\ ~LoopCond(t, i)
                           /\ result'.tokens = out

\* C15 (Interleaver termination): every iteration consumes the pending
\* insertion or the pending root token, so the loop takes at most (number of
\* root tokens + number of insertions) iterations and can always take its
\* next step; it exits only with both cursors exhausted; what was appended
\* to out is never changed or removed.
InterleaverTerminates == []InterleaverBounded /\ [][InterleaverStep]_vars

\* A finished merge that took as many iterations as there are root tokens
\* and insertions, a split among them.
InterleaverTerminatesWitness ==
    /\ Succeeded
    /\ Merged
    /\ iters = Len(rootTokens) + Len(insertions)
    /\ iters >= 4
    /\ \E k \in 1..Len(splitLog) : InteriorSplit(splitLog[k])


IsOtherToken(tk) == tk.Type = Other
IsOtherChar(c) == LangType(c) = Other

\* C16 (Other buffer content): when the extractor loop has finished the
\* Other buffer is the concatenation, in order, of the values of the tokens
\* the language lexer typed Other, which is the text with the spans of the
\* language tokens deleted; it is as long as the text less the language
\* tokens' values; while the loop runs the buffer holds the values of the
\* Other tokens read so far and nothing else.
OtherBufferContent ==
    /\ pc = "extract" =>
          others = Stringify(SelectSeq(SubSeq(tokens, 1, ti - 1), IsOtherToken))
    /\ ExtractorFinished =>
          /\ others = Stringify(SelectSeq(tokens, IsOtherToken))
          /\ others = SelectSeq(text, IsOtherChar)
          /\ Len(others) = Len(text) - SumLen(SelectSeq(tokens, NotOther))

\* The extractor has finished on a text with two Other spans that differ,
\* a language token between them.
OtherBufferWitness ==
    /\ ExtractorFinished
    /\ Len(SelectSeq(tokens, IsOtherToken)) >= 2
    /\ HasLanguage
    /\ others # <<>>
    /\ others[1] # others[Len(others)]


\* C17 (No invalid access): the extractor appends a language token only to
\* an insertion that has been opened; the interleaver takes the splice
\* branch only with an insertion pending, and the position it gives
\* splitToken for a root token is at least 0 and less than the length of the
\* token's value.
NoInvalidAccess ==
    /\ pc # "panic"
    /\ (pc = "extract" /\ last # EOF /\ last.Type # Other) =>
          /\ insert # nil
          /\ insert = Len(insertions)
          /\ insertions[insert].tokens[Len(insertions[insert].tokens)] = last
    /\ \A k \in 1..Len(splitLog) :
          /\ splitLog[k].ins \in 1..Len(insertions)
          /\ splitLog[k].tok # EOF =>
                /\ 0 <= splitLog[k].at
                /\ splitLog[k].at < Len(splitLog[k].tok.Value)
    /\ (pc = "merge" /\ LoopCond(t, i) /\ SpliceCond(t, i, insertions, offset))
          => /\ i # nil
             /\ t # EOF => /\ 0 <= insertions[i].start - offset
                           /\ insertions[i].start - offset < Len(t.Value)

\* A finished merge of a text that starts with a language token, with a
\* root token split inside and another split at 0.
NoInvalidAccessWitness ==
    /\ Succeeded
    /\ Len(tokens) > 0 /\ tokens[1].Type # Other
    /\ \E k \in 1..Len(splitLog) : InteriorSplit(splitLog[k])
    /\ \E k \in 1..Len(splitLog) :
          splitLog[k].tok # EOF /\ splitLog[k].at = 0


\* The root-derived tokens of o, the consecutive pieces of one root token
\* joined again.
RECURSIVE Rejoin(_, _, _, _, _)
Rejoin(o, src, k, acc, lastIdx) ==
    IF k > Len(o) THEN acc
    ELSE IF src[k].from = "ins" THEN Rejoin(o, src, k + 1, acc, lastIdx)
    ELSE IF src[k].idx = lastIdx
         THEN Rejoin(o, src, k + 1,
                     [acc EXCEPT ![Len(acc)].Value = @ \o o[k].Value], lastIdx)
    ELSE Rejoin(o, src, k + 1, Append(acc, o[k]), src[k].idx)

\* Where root token r starts in the Other buffer, and where insertion j
\* falls in it.
BufStart(r) == SumLen(SubSeq(rootTokens, 1, r - 1))
RECURSIVE SplicedBefore(_)
SplicedBefore(j) ==
    IF j <= 1 THEN 0
    ELSE SplicedBefore(j - 1) + SumLen(insertions[j - 1].tokens)
BufPos(j) == insertions[j].start - SplicedBefore(j)
StartsInside(r) ==
    {j \in 1..Len(insertions) :
        /\ BufStart(r) < BufPos(j)
        /\ BufPos(j) < BufStart(r) + Len(rootTokens[r].Value)}
PiecesOf(r) == {k \in 1..Len(outSrc) : outSrc[k] = FromRoot(r)}

\* C18 (Root tokens survive the merge): in the merged path the output
\* without the insertion tokens, the pieces of one root token joined again,
\* is the root lexer's token sequence for the Other buffer: same order, same
\* types, none dropped or duplicated, the tokens after the last insertion
\* included; a root token is in at most (insertions starting strictly inside
\* it) + 1 pieces.
RootTokensSurvive ==
    (Succeeded /\ Merged) =>
        /\ Len(outSrc) = Len(out)
        /\ result.tokens = out
        /\ Rejoin(out, outSrc, 1, <<>>, 0) = rootTokens
        /\ Stringify(Rejoin(out, outSrc, 1, <<>>, 0)) = others
        /\ \A k \in 1..Len(out) : outSrc[k].from = "root" =>
              /\ outSrc[k].idx \in 1..Len(rootTokens)
              /\ out[k].Type = rootTokens[outSrc[k].idx].Type
              /\ out[k].Value # <<>>
        /\ \A k \in 1..Len(out), m \in 1..Len(out) :
              (k < m /\ outSrc[k].from = "root" /\ outSrc[m].from = "root")
                  => outSrc[k].idx <= outSrc[m].idx
        /\ \A r \in 1..Len(rootTokens) :
              /\ Cardinality(PiecesOf(r)) >= 1
              /\ Cardinality(PiecesOf(r)) <= Cardinality(StartsInside(r)) + 1

\* A finished merge in which one root token was split around an insertion
\* and a whole root token follows the last insertion.
RootTokensSurviveWitness ==
    /\ Succeeded
    /\ Merged
    /\ \E r \in 1..Len(rootTokens) : Cardinality(PiecesOf(r)) >= 2
    /\ outSrc[Len(outSrc)].from = "root"
    /\ Cardinality(PiecesOf(outSrc[Len(outSrc)].idx)) = 1

====
